---------------------------- MODULE Spec2Model ----------------------------
(***************************************************************************)
(* A model of the DietCode agent: the CI log analyzer                      *)
(* (src/agent/analyzer.py), the fix generator (src/agent/fix_genertor.py)  *)
(* and the orchestrator pipeline (src/agent/orchestrator.py) with the      *)
(* collaborator calls it makes through src/mcp/client.py.                  *)
(*                                                                         *)
(* TEXT.  A text (a log, an error message, a captured group) is a sequence *)
(* of pieces; the string it stands for is the concatenation of the pieces. *)
(* An input text is built from the pieces of Tokens below.  Each token is  *)
(* written as the very characters it stands for, and what the code asks of *)
(* characters (is it a line break, white space, a quote; which keywords    *)
(* and which pattern literals occur in it) is tabulated per token.  The    *)
(* tokens are chosen so that no keyword and no pattern literal can arise   *)
(* across the boundary of two tokens.                                      *)
(*                                                                         *)
(* NUMBERS.  Confidences are percentages: 0.9 is 90, 0.85 is 85.           *)
(***************************************************************************)
EXTENDS Integers, Sequences, FiniteSets, TLC

VARIABLES
    pc,             \* position of the run in process_pr_failure
    threshold,      \* self.confidence_threshold
    max_attempts,   \* self.max_attempts
    servers,        \* MCPClient.servers: the process kept under a server name
    processes,      \* the server processes spawned so far, in order
    process,        \* the process call_tool took from servers
    calls,          \* the collaborator calls made so far, in order
    check_runs,     \* the listing returned by get_pr_checks
    logs,           \* the text returned by get_check_logs / given to analyze
    diagnosis,      \* the dict returned by analyze
    diff,           \* the text returned by get_pr_diff, by its lines
    affected_file,  \* the path returned by _locate_affected_file
    file_content,   \* the text returned by get_file_content
    fix,            \* the value returned by generate_fix
    comment,        \* the body handed to post_comment
    result          \* the value process_pr_failure returned (or what it raised)

vars ==
    << pc, threshold, max_attempts, servers, processes, process, calls,
       check_runs, logs, diagnosis, diff, affected_file,
       file_content, fix, comment, result >>

---------------------------------------------------------------------------
(* Bounds of the model.                                                    *)

\* longest log, in tokens, given to analyze on its own
MaxLogLen == 3

\* most entries of a check-run listing
MaxChecks == 2

\* most changes of a well-formed fix proposal from the completion service
MaxChanges == 2

\* most lines of a log drawn line by line
MaxLines == 6

\* most calls of analyze on one analyzer
MaxCalls == 3

\* the lines of a log drawn line by line from the lines of error reports
MaxReportLines == 4

---------------------------------------------------------------------------
(* Tokens and their characters.                                            *)

NL == "\n"

T_MNF == "ModuleNotFoundError: No module named '"
T_IENM == "ImportError: No module named "
T_CIN == "cannot import name '"
T_IE == "ImportError: "
T_FROM == "from "
T_IMPORT == " import "
T_FAILED == " failed"
T_EME == "error: externally-managed-environment"
T_CNF == "Could not find a version that satisfies the requirement "
T_NMD == "No matching distribution found for "
T_FNF == "FileNotFoundError: [Errno 2] No such file or directory: '"
T_IOE == "IOError: [Errno 2] No such file or directory: '"
T_SE == "SyntaxError: "
T_IND == "IndentationError: "
T_ERR == "ERROR: "
T_TB == "Traceback"
T_Q == "'"
T_W == "numpy"
T_SP == " "
T_FILE == "File \"app.py\""
T_FILE_DOT == "File \"./app.py\""
T_FILE_UP == "File \"../pkg/a.py\""
T_FILE_TXT == "File \"notes.txt\""

Tokens ==
    { NL, T_SP, T_Q, T_W, T_TB, T_ERR, T_MNF, T_IENM, T_CIN, T_IE, T_FROM,
      T_IMPORT, T_FAILED, T_EME, T_CNF, T_NMD, T_FNF, T_IOE, T_SE, T_IND,
      T_FILE, T_FILE_DOT, T_FILE_UP, T_FILE_TXT }

\* the tokens without any white-space character
NoSpaceTokens == { T_Q, T_W, T_TB }

\* the longest prefix of a token that has no white-space character
NonSpaceHead(t) ==
    CASE t \in NoSpaceTokens -> t
      [] t = T_MNF -> "ModuleNotFoundError:"
      [] t \in {T_IENM, T_IE} -> "ImportError:"
      [] t = T_CIN -> "cannot"
      [] t = T_FROM -> "from"
      [] t = T_EME -> "error:"
      [] t = T_CNF -> "Could"
      [] t = T_NMD -> "No"
      [] t = T_FNF -> "FileNotFoundError:"
      [] t = T_IOE -> "IOError:"
      [] t = T_SE -> "SyntaxError:"
      [] t = T_IND -> "IndentationError:"
      [] t = T_ERR -> "ERROR:"
      [] t \in {T_FILE, T_FILE_DOT, T_FILE_UP, T_FILE_TXT} -> "File"
      [] OTHER -> ""          \* NL, T_SP, T_IMPORT, T_FAILED start with white space

\* the tokens with a single quote; in each it is the last character
QuoteTokens == { T_Q, T_MNF, T_CIN, T_FNF, T_IOE }

\* what precedes the single quote of a quote token
QuoteHead(t) ==
    CASE t = T_MNF -> "ModuleNotFoundError: No module named "
      [] t = T_CIN -> "cannot import name "
      [] t = T_FNF -> "FileNotFoundError: [Errno 2] No such file or directory: "
      [] t = T_IOE -> "IOError: [Errno 2] No such file or directory: "
      [] OTHER -> ""

\* a text of one piece, or the empty text for the empty string
Piece(s) == IF s = "" THEN <<>> ELSE <<s>>

\* str.lower() of a token, for the tokens it changes
Lower(t) ==
    CASE t = T_MNF -> "modulenotfounderror: no module named '"
      [] t = T_IENM -> "importerror: no module named "
      [] t = T_IE -> "importerror: "
      [] t = T_CNF -> "could not find a version that satisfies the requirement "
      [] t = T_NMD -> "no matching distribution found for "
      [] t = T_FNF -> "filenotfounderror: [errno 2] no such file or directory: '"
      [] t = T_IOE -> "ioerror: [errno 2] no such file or directory: '"
      [] t = T_SE -> "syntaxerror: "
      [] t = T_IND -> "indentationerror: "
      [] t = T_ERR -> "error: "
      [] t = T_TB -> "traceback"
      [] t = T_FILE -> "file \"app.py\""
      [] t = T_FILE_DOT -> "file \"./app.py\""
      [] t = T_FILE_UP -> "file \"../pkg/a.py\""
      [] t = T_FILE_TXT -> "file \"notes.txt\""
      [] OTHER -> t

\* the keywords of _extract_error_lines that occur in a lower-case token
KeywordsIn(s) ==
    CASE s = "modulenotfounderror: no module named '" -> {"error", "modulenotfounderror"}
      [] s \in { "importerror: no module named ", "importerror: ",
                 "error: externally-managed-environment",
                 "filenotfounderror: [errno 2] no such file or directory: '",
                 "ioerror: [errno 2] no such file or directory: '",
                 "syntaxerror: ", "indentationerror: ", "error: " } -> {"error"}
      [] s = " failed" -> {"failed"}
      [] s = "traceback" -> {"traceback"}
      [] OTHER -> {}

---------------------------------------------------------------------------
(* Texts.                                                                  *)

\* the texts of at most n tokens drawn from S
TextsUpTo(S, n) == UNION { [1..k -> S] : k \in 0..n }

\* the index of the first line break of text at or after i, Len(text)+1 if none
NextBreak(text, i) ==
    IF \E j \in i..Len(text) : text[j] = NL
    THEN CHOOSE j \in i..Len(text) : text[j] = NL /\ \A k \in i..(j-1) : text[k] # NL
    ELSE Len(text) + 1

\* str.split('\n'): the lines of a text, an empty text being one empty line
RECURSIVE Split(_)
Split(text) ==
    LET b == NextBreak(text, 1) IN
    IF b > Len(text) THEN <<text>>
    ELSE <<SubSeq(text, 1, b - 1)>> \o Split(SubSeq(text, b + 1, Len(text)))

\* "\n".join(lines)
RECURSIVE Join(_)
Join(lines) ==
    IF lines = <<>> THEN <<>>
    ELSE IF Len(lines) = 1 THEN lines[1]
    ELSE lines[1] \o <<NL>> \o Join(Tail(lines))

\* lines[start:end] of Python, start and end counted from 0 and within bounds
Slice(lines, start, end) == SubSeq(lines, start + 1, end)

Max(a, b) == IF a >= b THEN a ELSE b
Min(a, b) == IF a <= b THEN a ELSE b

---------------------------------------------------------------------------
(* Regular expressions of CILogAnalyzer.PATTERNS, searched as re.search    *)
(* does: the leftmost position where the pattern matches, groups greedy.   *)
(* A pattern is a record: re is the source text of the expression, kind    *)
(* its shape, starts the tokens that begin with its literal prefix, each   *)
(* with what the token holds after that prefix.                            *)

NoMatch == [found |-> FALSE, group0 |-> <<>>, groups |-> <<>>]
Match(g0, gs) == [found |-> TRUE, group0 |-> g0, groups |-> gs]

\* the index after the last token of the line of text that holds position i
LineEnd(text, i) == NextBreak(text, i) - 1

\* kind "quoted": <literal ending in '>([^']+)' tried at position i
MatchQuotedAt(p, text, i) ==
    IF ~(\E j \in (i+1)..Len(text) : text[j] \in QuoteTokens) THEN NoMatch
    ELSE
        LET j == CHOOSE j \in (i+1)..Len(text) :
                    /\ text[j] \in QuoteTokens
                    /\ \A k \in (i+1)..(j-1) : text[k] \notin QuoteTokens
            g == SubSeq(text, i + 1, j - 1) \o Piece(QuoteHead(text[j]))
        IN  IF g = <<>> THEN NoMatch ELSE Match(SubSeq(text, i, j), <<g>>)

\* the index of the last token of the longest run of tokens without white
\* space that starts at position i (i - 1 if the run is empty)
RunEnd(text, i) ==
    IF \E j \in i..Len(text) : text[j] \notin NoSpaceTokens
    THEN (CHOOSE j \in i..Len(text) :
            /\ text[j] \notin NoSpaceTokens
            /\ \A k \in i..(j-1) : text[k] \in NoSpaceTokens) - 1
    ELSE Len(text)

\* kind "word": <literal>([^\s]+) tried at position i
MatchWordAt(p, text, i) ==
    LET k == RunEnd(text, i + 1)
        g == SubSeq(text, i + 1, k)
             \o (IF k < Len(text) THEN Piece(NonSpaceHead(text[k+1])) ELSE <<>>)
    IN  IF g = <<>> THEN NoMatch ELSE Match(<<text[i]>> \o g, <<g>>)

\* kind "rest": <literal>(.+) tried at position i
MatchRestAt(p, text, i) ==
    LET rest == SubSeq(text, i + 1, LineEnd(text, i + 1))
        g == Piece(p.starts[text[i]]) \o rest
    IN  IF g = <<>> THEN NoMatch ELSE Match(<<text[i]>> \o rest, <<g>>)

\* kind "literal": no group
MatchLiteralAt(p, text, i) == Match(<<text[i]>>, <<>>)

\* the tokens holding " import ", with what follows it in the token
AfterImport(t) == IF t = T_CIN THEN "name '" ELSE ""
ImportTokens == { T_IMPORT, T_CIN }

\* kind "from": from ([^\s]+) import .+ failed tried at position i
MatchFromAt(p, text, i) ==
    LET k == RunEnd(text, i + 1) IN
    IF k >= Len(text) \/ text[k+1] \notin ImportTokens THEN NoMatch
    ELSE
        LET g == SubSeq(text, i + 1, k) \o Piece(NonSpaceHead(text[k+1]))
            \* the first position a final " failed" may take: .+ needs a character
            lo == IF AfterImport(text[k+1]) = "" THEN k + 3 ELSE k + 2
            ends == { f \in lo..LineEnd(text, k + 1) : text[f] = T_FAILED }
        IN  IF g = <<>> \/ ends = {} THEN NoMatch
            ELSE LET f == CHOOSE f \in ends : \A e \in ends : e <= f
                 IN  Match(SubSeq(text, i, f), <<g>>)

MatchAt(p, text, i) ==
    IF text[i] \notin DOMAIN p.starts THEN NoMatch
    ELSE CASE p.kind = "quoted" -> MatchQuotedAt(p, text, i)
           [] p.kind = "word" -> MatchWordAt(p, text, i)
           [] p.kind = "rest" -> MatchRestAt(p, text, i)
           [] p.kind = "literal" -> MatchLiteralAt(p, text, i)
           [] p.kind = "from" -> MatchFromAt(p, text, i)

\* re.search(pattern, text, re.MULTILINE)
Search(p, text) ==
    LET hits == { i \in 1..Len(text) : MatchAt(p, text, i).found } IN
    IF hits = {} THEN NoMatch
    ELSE MatchAt(p, text, CHOOSE i \in hits : \A h \in hits : i <= h)

Pattern(re, kind, starts) == [re |-> re, kind |-> kind, starts |-> starts]

\* the FailureType members
MODULE_NOT_FOUND == "module_not_found"
IMPORT_ERROR == "import_error"
MISSING_DEPENDENCY == "missing_dependency"
BROKEN_PATH == "broken_path"
SYNTAX_ERROR == "syntax_error"
UNKNOWN == "unknown"

FailureType ==
    { MODULE_NOT_FOUND, IMPORT_ERROR, MISSING_DEPENDENCY, BROKEN_PATH,
      SYNTAX_ERROR, UNKNOWN }

\* CILogAnalyzer.PATTERNS, in the order of its items()
PATTERNS ==
    << [failure_type |-> MODULE_NOT_FOUND, patterns |-> <<
          Pattern("ModuleNotFoundError: No module named '([^']+)'", "quoted",
                  T_MNF :> ""),
          Pattern("ImportError: No module named ([^\\s]+)", "word",
                  T_IENM :> ""),
          Pattern("cannot import name '([^']+)'", "quoted", T_CIN :> "") >>],
       [failure_type |-> IMPORT_ERROR, patterns |-> <<
          Pattern("ImportError: (.+)", "rest",
                  (T_IE :> "") @@ (T_IENM :> "No module named ")),
          Pattern("from ([^\\s]+) import .+ failed", "from", T_FROM :> "") >>],
       [failure_type |-> MISSING_DEPENDENCY, patterns |-> <<
          Pattern("error: externally-managed-environment", "literal",
                  T_EME :> ""),
          Pattern("Could not find a version that satisfies the requirement ([^\\s]+)",
                  "word", T_CNF :> ""),
          Pattern("No matching distribution found for ([^\\s]+)", "word",
                  T_NMD :> "") >>],
       [failure_type |-> BROKEN_PATH, patterns |-> <<
          Pattern("FileNotFoundError: \\[Errno 2\\] No such file or directory: '([^']+)'",
                  "quoted", T_FNF :> ""),
          Pattern("IOError: \\[Errno 2\\] No such file or directory: '([^']+)'",
                  "quoted", T_IOE :> "") >>],
       [failure_type |-> SYNTAX_ERROR, patterns |-> <<
          Pattern("SyntaxError: (.+)", "rest", T_SE :> ""),
          Pattern("IndentationError: (.+)", "rest", T_IND :> "") >>] >>

---------------------------------------------------------------------------
(* CILogAnalyzer.                                                          *)

keywords == << "error", "failed", "exception", "traceback", "modulenotfounderror" >>

\* any(keyword in line.lower() for keyword in keywords)
HasKeyword(line) ==
    \E n \in 1..Len(keywords) : \E j \in 1..Len(line) :
        keywords[n] \in KeywordsIn(Lower(line[j]))

\* the loop of _extract_error_lines from line index i (counted from 0) on
RECURSIVE ExtendFrom(_, _)
ExtendFrom(lines, i) ==
    IF i >= Len(lines) THEN <<>>
    ELSE (IF HasKeyword(lines[i + 1])
          THEN LET start == Max(0, i - 2)
                   end == Min(Len(lines), i + 6)
               IN  Slice(lines, start, end)
          ELSE <<>>)
         \o ExtendFrom(lines, i + 1)

\* _extract_error_lines were a line taken once however many windows hold it
_extract_error_lines_NoRepeat(log_content) ==
    LET lines == Split(log_content)
        taken == { j \in 0..(Len(lines) - 1) :
                    \E i \in 0..(Len(lines) - 1) :
                        HasKeyword(lines[i + 1]) /\ i - 2 <= j /\ j < i + 6 }
        Ordered[k \in 0..Cardinality(taken)] ==
            IF k = 0 THEN <<>>
            ELSE LET j == CHOOSE j \in taken :
                            Cardinality({ h \in taken : h < j }) = k - 1
                 IN  Append(Ordered[k - 1], lines[j + 1])
    IN  Ordered[Cardinality(taken)]

_extract_error_lines(log_content) == ExtendFrom(Split(log_content), 0)

EmptyDict == [k \in {} |-> <<>>]

\* result["details"] after the branch on failure_type
Details(failure_type, match) ==
    CASE failure_type = MODULE_NOT_FOUND -> ("missing_module" :> match.groups[1])
      [] failure_type = BROKEN_PATH -> ("missing_path" :> match.groups[1])
      [] failure_type = MISSING_DEPENDENCY /\ match.groups # <<>> ->
            ("package_name" :> match.groups[1])
      [] OTHER -> EmptyDict

\* the (category, pattern) index pairs in the order the two loops visit them
PatternOrder ==
    UNION { { <<c, n>> : n \in 1..Len(PATTERNS[c].patterns) } : c \in 1..Len(PATTERNS) }
Before(a, b) == a[1] < b[1] \/ (a[1] = b[1] /\ a[2] < b[2])

\* FirstHit were the loops to go on after a match: the last match stays
FirstHit_NoReturn(log_content) ==
    LET hits == { cn \in PatternOrder :
                    Search(PATTERNS[cn[1]].patterns[cn[2]], log_content).found }
    IN  IF hits = {} THEN <<0, 0>>
        ELSE CHOOSE cn \in hits : \A h \in hits : h = cn \/ Before(h, cn)

\* the first pattern, in loop order, that re.search finds in log_content
FirstHit(log_content) ==
    LET hits == { cn \in PatternOrder :
                    Search(PATTERNS[cn[1]].patterns[cn[2]], log_content).found }
    IN  IF hits = {} THEN <<0, 0>>
        ELSE CHOOSE cn \in hits : \A h \in hits : h = cn \/ Before(cn, h)

\* the mapping analyze starts from, were its details the mapping the call
\* before left behind
InitialResult_SharedDetails(snippet) ==
    [failure_type |-> UNKNOWN, error_message |-> <<>>,
     details |-> IF "details" \in DOMAIN diagnosis THEN diagnosis.details
                 ELSE EmptyDict,
     confidence |-> 0, log_snippet |-> snippet]

\* the mapping analyze starts from, with the snippet once error lines exist
InitialResult(snippet) ==
    [failure_type |-> UNKNOWN, error_message |-> <<>>, details |-> EmptyDict,
     confidence |-> 0, log_snippet |-> snippet]

\* MatchedResult were the confidence left as initialised
MatchedResult_NoConfidence(failure_type, match, snippet) ==
    [InitialResult(snippet) EXCEPT
        !.failure_type = failure_type,
        !.error_message = match.group0,
        !.details = Details(failure_type, match)]

\* the assignments of the `if match:` branch
MatchedResult(failure_type, match, snippet) ==
    [InitialResult(snippet) EXCEPT
        !.failure_type = failure_type,
        !.error_message = match.group0,
        !.confidence = 90,
        !.details = Details(failure_type, match)]

\* the assignment after the loops, were it to give the confidence 0.7
UnmatchedResult_AtDefault(snippet) == [InitialResult(snippet) EXCEPT !.confidence = 70]

\* the assignment after the loops
UnmatchedResult(snippet) == [InitialResult(snippet) EXCEPT !.confidence = 30]

\* analyze were the early return on no error lines missing
analyze_NoEarlyReturn(log_content) ==
    LET error_lines == _extract_error_lines(log_content)
        snippet == Join(Slice(error_lines, 0, Min(10, Len(error_lines))))
        hit == FirstHit(log_content)
    IN  IF hit # <<0, 0>>
        THEN MatchedResult(PATTERNS[hit[1]].failure_type,
                           Search(PATTERNS[hit[1]].patterns[hit[2]], log_content),
                           snippet)
        ELSE UnmatchedResult(snippet)

\* analyze were the patterns searched in the snippet
analyze_SearchSnippet(log_content) ==
    LET error_lines == _extract_error_lines(log_content)
        snippet == Join(Slice(error_lines, 0, Min(10, Len(error_lines))))
        hit == FirstHit(snippet)
    IN  IF error_lines = <<>> THEN InitialResult(<<>>)
        ELSE IF hit # <<0, 0>>
        THEN MatchedResult(PATTERNS[hit[1]].failure_type,
                           Search(PATTERNS[hit[1]].patterns[hit[2]], snippet),
                           snippet)
        ELSE UnmatchedResult(snippet)

analyze(log_content) ==
    LET error_lines == _extract_error_lines(log_content)
        snippet == Join(Slice(error_lines, 0, Min(10, Len(error_lines))))
        hit == FirstHit(log_content)
    IN  IF error_lines = <<>> THEN InitialResult(<<>>)
        ELSE IF hit # <<0, 0>>
        THEN MatchedResult(PATTERNS[hit[1]].failure_type,
                           Search(PATTERNS[hit[1]].patterns[hit[2]], log_content),
                           snippet)
        ELSE UnmatchedResult(snippet)

---------------------------------------------------------------------------
(* analyze on its own: one call on a log drawn from Logs.                  *)

Logs == TextsUpTo(Tokens, MaxLogLen)

\* self.servers = {}
NoServers == [name \in {} |-> 0]

\* no process taken yet
NoProcess == 0

\* the process asyncio.create_subprocess_exec returns: the requests written
\* to its stdin and not yet taken by the server, the response lines its
\* stdout reader has buffered, the invocation waiting in readline, and
\* whether it runs
NewProcess == [stdin |-> <<>>, stdout |-> <<>>, waiter |-> 0, alive |-> TRUE]

NoDiagnosis == [none |-> TRUE]
NoFile == [found |-> FALSE, path |-> <<>>]
NoFix == [none |-> TRUE]
NoComment == [none |-> TRUE]
NoResult == [status |-> "running"]

InitAnalyze ==
    /\ pc = "analyze"
    /\ logs \in Logs
    /\ diagnosis = NoDiagnosis
    /\ diff = <<>>
    /\ threshold = 70
    /\ max_attempts = 3
    /\ servers = NoServers
    /\ processes = <<>>
    /\ process = NoProcess
    /\ calls = <<>>
    /\ check_runs = <<>>
    /\ affected_file = NoFile
    /\ file_content = <<>>
    /\ fix = NoFix
    /\ comment = NoComment
    /\ result = NoResult

AnalyzeCall ==
    /\ pc = "analyze"
    /\ diagnosis' = analyze(logs)
    /\ pc' = "analyzed"
    /\ UNCHANGED << threshold, max_attempts, servers, processes, process,
                    calls, check_runs, logs, diff, affected_file,
                    file_content, fix, comment, result >>

NextAnalyze == AnalyzeCall

SpecAnalyze == InitAnalyze /\ [][NextAnalyze]_vars

---------------------------------------------------------------------------
(* analyze on a log of many lines: the log is drawn line by line.          *)

\* the lines a long log is made of: two with a keyword, two without
SnippetLines == { <<T_TB>>, <<T_ERR, T_W>>, <<T_W>>, <<>> }

LongLogs == { Join(ls) : ls \in TextsUpTo(SnippetLines, MaxLines) }

InitSnippet ==
    /\ pc = "analyze"
    /\ logs \in LongLogs
    /\ diagnosis = NoDiagnosis
    /\ diff = <<>>
    /\ threshold = 70
    /\ max_attempts = 3
    /\ servers = NoServers
    /\ processes = <<>>
    /\ process = NoProcess
    /\ calls = <<>>
    /\ check_runs = <<>>
    /\ affected_file = NoFile
    /\ file_content = <<>>
    /\ fix = NoFix
    /\ comment = NoComment
    /\ result = NoResult

SpecSnippet == InitSnippet /\ [][NextAnalyze]_vars

---------------------------------------------------------------------------
(* analyze on a log of error reports: the log is drawn line by line.       *)

\* the lines: without and with a keyword and no pattern; a pattern in a
\* line without a keyword and the same in a line with one; a pattern of
\* each category in a line with a keyword
ReportLines ==
    { <<T_W>>, <<T_TB>>,
      <<T_NMD, T_W>>, <<T_NMD, T_TB>>,
      <<T_EME>>, <<T_MNF, T_W, T_Q>>, <<T_IENM, T_W>>,
      <<T_FNF, T_W, T_Q>>, <<T_SE, T_W>> }

ReportLogs == { Join(ls) : ls \in TextsUpTo(ReportLines, MaxReportLines) }

InitReport ==
    /\ pc = "analyze"
    /\ logs \in ReportLogs
    /\ diagnosis = NoDiagnosis
    /\ diff = <<>>
    /\ threshold = 70
    /\ max_attempts = 3
    /\ servers = NoServers
    /\ processes = <<>>
    /\ process = NoProcess
    /\ calls = <<>>
    /\ check_runs = <<>>
    /\ affected_file = NoFile
    /\ file_content = <<>>
    /\ fix = NoFix
    /\ comment = NoComment
    /\ result = NoResult

SpecReport == InitReport /\ [][NextAnalyze]_vars

---------------------------------------------------------------------------
(* Calls of analyze one after the other on one CILogAnalyzer; calls holds  *)
(* each log given with the diagnosis returned for it.                      *)

\* the logs given: one per category, one with no pattern, one with no keyword
CallLogs ==
    { <<T_MNF, T_W, T_Q>>, <<T_IE, T_W>>, <<T_ERR, T_CNF, T_W>>,
      <<T_FNF, T_W, T_Q>>, <<T_SE, T_W>>, <<T_TB, NL, T_FILE>>, <<T_W>> }

InitCalls ==
    /\ pc = "idle"
    /\ threshold = 70
    /\ max_attempts = 3
    /\ servers = NoServers
    /\ processes = <<>>
    /\ process = NoProcess
    /\ calls = <<>>
    /\ check_runs = <<>>
    /\ logs = <<>>
    /\ diagnosis = NoDiagnosis
    /\ diff = <<>>
    /\ affected_file = NoFile
    /\ file_content = <<>>
    /\ fix = NoFix
    /\ comment = NoComment
    /\ result = NoResult

\* self.analyzer.analyze(log_content), once more
AnalyzeAgain ==
    /\ pc = "idle"
    /\ Len(calls) < MaxCalls
    /\ \E log_content \in CallLogs :
        /\ logs' = log_content
        /\ diagnosis' = analyze(log_content)
        /\ calls' = Append(calls, [log |-> log_content, diagnosis |-> diagnosis'])
    /\ UNCHANGED << pc, threshold, max_attempts, servers, processes, process,
                    check_runs, diff, affected_file, file_content, fix,
                    comment, result >>

NextCalls == AnalyzeAgain

SpecCalls == InitCalls /\ [][NextCalls]_vars

---------------------------------------------------------------------------
(* Dicts, as Python reads them.                                            *)

Has(d, k) == k \in DOMAIN d

\* d.get(k, default)
Get(d, k, default) == IF Has(d, k) THEN d[k] ELSE default

\* d without the key k
Without(d, k) == [x \in (DOMAIN d) \ {k} |-> d[x]]

---------------------------------------------------------------------------
(* FixGenerator.  The completion service answers a request with a          *)
(* response: failed says the request itself raised, parses whether         *)
(* json.loads accepts the text it returned, value the object json.loads    *)
(* then yields.                                                            *)

Exception(type, origin) == [type |-> type, origin |-> origin]

\* what a call gave: a value it returned or an exception it raised, with
\* the prompts it sent to the completion service
Returned(value, prompts) ==
    [outcome |-> "returned", value |-> value, error |-> Exception("", ""),
     prompts |-> prompts]
Raised(error, prompts) ==
    [outcome |-> "raised", value |-> NoFix, error |-> error, prompts |-> prompts]

\* self.client.chat.completions.create(...) and json.loads of its content
RequestFix(prompt, response) ==
    IF response.failed THEN Raised(Exception("APIError", "completion"), <<prompt>>)
    ELSE IF ~response.parses
    THEN Raised(Exception("JSONDecodeError", "json.loads"), <<prompt>>)
    ELSE Returned(response.value, <<prompt>>)

_fix_missing_import(error_details, content, file_path, response) ==
    RequestFix([task |-> "missing_import",
                missing_module |-> Get(error_details, "missing_module", <<>>),
                file_path |-> file_path, file_content |-> content], response)

\* _fix_missing_dependency were the line break after the package name left out
_fix_missing_dependency_NoBreak(error_details) ==
    LET package_name == Get(error_details, "package_name", <<>>) IN
    Returned([fix_type |-> "add_dependency",
              changes |-> << [file |-> <<"requirements.txt">>, action |-> "insert",
                              line_number |-> -1, old_content |-> <<>>,
                              new_content |-> package_name] >>,
              explanation |-> <<"Add missing dependency '">> \o package_name
                              \o <<"' to requirements.txt">>,
              confidence |-> 85], <<>>)

_fix_missing_dependency(error_details) ==
    LET package_name == Get(error_details, "package_name", <<>>) IN
    Returned([fix_type |-> "add_dependency",
              changes |-> << [file |-> <<"requirements.txt">>, action |-> "insert",
                              line_number |-> -1, old_content |-> <<>>,
                              new_content |-> package_name \o <<NL>>] >>,
              explanation |-> <<"Add missing dependency '">> \o package_name
                              \o <<"' to requirements.txt">>,
              confidence |-> 85], <<>>)

_fix_broken_path(error_details, content, response) ==
    RequestFix([task |-> "broken_path",
                missing_path |-> Get(error_details, "missing_path", <<>>),
                file_content |-> content], response)

_generic_fix(failure_type, error_details, content, response) ==
    RequestFix([task |-> "generic", failure_type |-> failure_type,
                error_details |-> error_details, file_content |-> content],
               response)

generate_fix(failure_type, error_details, content, file_path, response) ==
    IF failure_type = MODULE_NOT_FOUND
    THEN _fix_missing_import(error_details, content, file_path, response)
    ELSE IF failure_type = MISSING_DEPENDENCY
    THEN _fix_missing_dependency(error_details)
    ELSE IF failure_type = BROKEN_PATH
    THEN _fix_broken_path(error_details, content, response)
    ELSE _generic_fix(failure_type, error_details, content, response)

---------------------------------------------------------------------------
(* What the collaborators may answer.                                      *)

Conclusions == { "success", "failure", "neutral" }

CheckName(id) == CASE id = 1 -> "lint" [] id = 2 -> "test" [] OTHER -> "build"

\* the listings get_pr_checks may return: entry i has id i
CheckListings ==
    { [i \in 1..k |-> [id |-> i, name |-> CheckName(i), conclusion |-> c[i]]] :
        k \in 0..MaxChecks, c \in [1..MaxChecks -> Conclusions] }

\* the logs get_check_logs may return
PipelineLogs ==
    { <<T_TB, NL, T_FILE, NL, T_MNF, T_W, T_Q>>,
      <<T_MNF, T_W, T_Q>>,
      <<T_ERR, T_CNF, T_W, NL, T_FILE_DOT>>,
      <<T_ERR, T_CNF, T_W>>,
      <<T_EME, NL, T_FILE>>,
      <<T_FILE_UP, NL, T_FNF, T_W, T_Q>>,
      <<T_FILE_TXT, NL, T_FILE_DOT, NL, T_SE, T_W>>,
      <<T_IE, T_W, NL, T_FILE_TXT>>,
      <<T_FROM, T_W, T_IMPORT, T_W, T_FAILED, NL, T_FILE>>,
      <<T_FILE, NL, T_W, NL, T_W, NL, T_W, NL, T_SE, T_W>>,
      <<T_TB, NL, T_FILE>>,
      <<T_TB, NL, T_FILE_UP, NL, T_FILE, NL, T_SE, T_W>>,
      <<T_TB>>,
      <<T_CIN, T_W, T_Q>> }

\* the lines of a diff; a diff is the sequence of its lines
D_OLD == "--- a/src/app.py"
D_PY == "+++ b/src/app.py"
D_TEST == "+++ b/tests/test_app.py"
D_MD == "+++ b/README.md"
D_NULL == "+++ /dev/null"

\* the diffs get_pr_diff may return
Diffs ==
    { <<>>, <<D_OLD, D_NULL>>, <<D_OLD, D_MD>>, <<D_OLD, D_PY>>,
      <<D_MD, D_OLD, D_TEST, D_OLD, D_PY>> }

\* the texts get_file_content may return
FileContents == { <<>>, <<"import nunpy">> }

\* ChangeOps a completion may hold
OpInsert ==
    [file |-> <<"src/app.py">>, action |-> "insert", line_number |-> 1,
     old_content |-> <<>>, new_content |-> <<"import numpy">>]
OpReplace ==
    [file |-> <<"src/app.py">>, action |-> "replace", line_number |-> 5,
     old_content |-> <<"import nunpy">>, new_content |-> <<"import numpy">>]
OpDelete ==
    [file |-> <<"src/app.py">>, action |-> "delete", line_number |-> 5,
     old_content |-> <<"import nunpy">>, new_content |-> <<>>]
ChangeOps == { OpInsert, OpReplace, OpDelete }

FixConfidences == { 10, 90 }

\* the well-formed fix proposals among the completions
ProposedFixes ==
    { [fix_type |-> "add_import", changes |-> cs,
       explanation |-> <<"Import the module">>, confidence |-> c] :
        cs \in TextsUpTo(ChangeOps, MaxChanges), c \in FixConfidences }

BaseFix ==
    [fix_type |-> "fix_import", changes |-> <<OpReplace>>,
     explanation |-> <<"Fix the module name">>, confidence |-> 90]

\* objects that are no well-formed fix proposal: a required field missing,
\* or a change that is no ChangeOp
MalformedFixes ==
    { Without(BaseFix, k) : k \in DOMAIN BaseFix }
    \cup { [BaseFix EXCEPT !.changes = <<OpInsert, op>>] :
            op \in { Without(OpInsert, "file"), Without(OpInsert, "action"),
                     Without(OpInsert, "new_content"),
                     [OpInsert EXCEPT !.action = "move"] } }

\* a fix proposal whose change gives no line number
UnnumberedFix == [BaseFix EXCEPT !.changes = <<Without(OpInsert, "line_number")>>]

\* the answers of the completion service
CompletionResponses ==
    { [failed |-> TRUE, parses |-> FALSE, value |-> NoFix],
      [failed |-> FALSE, parses |-> FALSE, value |-> NoFix] }
    \cup { [failed |-> FALSE, parses |-> TRUE, value |-> v] :
            v \in ProposedFixes \cup MalformedFixes \cup {UnnumberedFix} }

\* the values PATCH_CONFIDENCE_THRESHOLD may give the threshold
Thresholds == { 30, 70, 90 }

\* the values MAX_DIAGNOSIS_ATTEMPTS may give max_attempts
MaxAttempts == { 1, 3 }

---------------------------------------------------------------------------
(* DietCodeAgent: rendering the comment.                                   *)

\* str() of the line numbers met
Str(n) == CASE n = -1 -> "-1" [] n = 1 -> "1" [] n = 5 -> "5" [] OTHER -> "?"

\* a line of changes_text
SummaryLine(c) ==
    <<"- **">> \o c.file \o <<"** (line ">>
        \o <<IF Has(c, "line_number") THEN Str(c.line_number) ELSE "N/A">>
        \o <<"): ", c.action>>

\* the lines _format_changes_detail appends for one change
DetailLines(change) ==
    CASE change.action = "insert" -> << <<"+ ">> \o change.new_content >>
      [] change.action = "replace" -> << <<"- ">> \o change.old_content,
                                         <<"+ ">> \o change.new_content >>
      [] change.action = "delete" -> << <<"- ">> \o change.old_content >>
      [] OTHER -> <<>>

RECURSIVE Concat(_)
Concat(seqs) == IF seqs = <<>> THEN <<>> ELSE seqs[1] \o Concat(Tail(seqs))

_format_changes_detail(changes) ==
    Join(Concat([i \in 1..Len(changes) |-> DetailLines(changes[i])]))

\* the keys _format_changes_detail reads of a change
DetailKeys(change) ==
    IF ~Has(change, "action") THEN {"action"}
    ELSE CASE change.action = "insert" -> {"action", "new_content"}
           [] change.action = "replace" -> {"action", "old_content", "new_content"}
           [] change.action = "delete" -> {"action", "old_content"}
           [] OTHER -> {"action"}

\* rendering the comment raises, were a fix of a confidence below the
\* threshold refused there
FormatKeyError_LowConfidence(f) ==
    \/ ~({"changes", "explanation", "confidence"} \subseteq DOMAIN f)
    \/ f.confidence < threshold
    \/ \E i \in 1..Len(f.changes) :
        ~(({"file", "action"} \cup DetailKeys(f.changes[i])) \subseteq DOMAIN f.changes[i])

\* rendering the comment raises KeyError
FormatKeyError(f) ==
    \/ ~({"changes", "explanation", "confidence"} \subseteq DOMAIN f)
    \/ \E i \in 1..Len(f.changes) :
        ~(({"file", "action"} \cup DetailKeys(f.changes[i])) \subseteq DOMAIN f.changes[i])

\* the comment, by the values that fill the template
_format_fix_comment(d, f, check_name) ==
    [check_name |-> check_name,
     failure_type |-> d.failure_type,
     error_msg |-> d.error_message,
     confidence |-> d.confidence,
     explanation |-> f.explanation,
     changes_text |-> Join([i \in 1..Len(f.changes) |-> SummaryLine(f.changes[i])]),
     fix_confidence |-> f.confidence,
     changes_detail |-> _format_changes_detail(f.changes)]

---------------------------------------------------------------------------
(* DietCodeAgent: locating the affected file.                              *)

\* group 1 of \+\+\+ b/(.+\.py) in a line of a diff, empty if no match
DiffPath(line) ==
    CASE line = D_PY -> <<"src/app.py">>
      [] line = D_TEST -> <<"tests/test_app.py">>
      [] OTHER -> <<>>

\* re.findall(r'\+\+\+ b/(.+\.py)', diff)
RECURSIVE FindPyFiles(_)
FindPyFiles(d) ==
    IF d = <<>> THEN <<>>
    ELSE (IF DiffPath(d[1]) = <<>> THEN <<>> ELSE <<DiffPath(d[1])>>)
         \o FindPyFiles(Tail(d))

\* group 1 of File "([^"]+\.py)" in a token, by characters: the leading
\* '.' and '/' one by one, then the rest; empty if no match
FilePath(t) ==
    CASE t = T_FILE -> <<"app.py">>
      [] t = T_FILE_DOT -> <<".", "/", "app.py">>
      [] t = T_FILE_UP -> <<".", ".", "/", "pkg/a.py">>
      [] OTHER -> <<>>

\* re.search(r'File "([^"]+\.py)"', stack_trace)
SearchFile(stack_trace) ==
    LET hits == { i \in 1..Len(stack_trace) : FilePath(stack_trace[i]) # <<>> } IN
    IF hits = {} THEN NoMatch
    ELSE LET i == CHOOSE i \in hits : \A h \in hits : i <= h
         IN  Match(<<stack_trace[i]>>, <<FilePath(stack_trace[i])>>)

\* str.lstrip(chars)
RECURSIVE LStrip(_, _)
LStrip(s, chars) ==
    IF s # <<>> /\ s[1] \in chars THEN LStrip(Tail(s), chars) ELSE s

\* the search of the stack trace in _locate_affected_file
FromStackTrace(d) ==
    LET file_match == SearchFile(Get(d, "log_snippet", <<>>)) IN
    IF file_match.found
    THEN [found |-> TRUE, path |-> LStrip(file_match.groups[1], {".", "/"})]
    ELSE NoFile

\* _locate_affected_file, were the last Python file of the diff returned
_locate_affected_file_LastFile(d, diff_text) ==
    LET files == FindPyFiles(diff_text) IN
    IF Has(d.details, "missing_module") /\ files # <<>>
    THEN [found |-> TRUE, path |-> files[Len(files)]]
    ELSE FromStackTrace(d)

\* _locate_affected_file, given the diff get_pr_diff returned if it was asked
_locate_affected_file(d, diff_text) ==
    LET files == FindPyFiles(diff_text) IN
    IF Has(d.details, "missing_module") /\ files # <<>>
    THEN [found |-> TRUE, path |-> files[1]]
    ELSE FromStackTrace(d)

---------------------------------------------------------------------------
(* DietCodeAgent.process_pr_failure.  An action is a collaborator call     *)
(* with its answer and the code that runs on from it to the next call.     *)

\* a call made, or a component invoked, with what it was given and whether
\* it failed (raised) rather than returned
Call(op, arg, failed) == [op |-> op, arg |-> arg, failed |-> failed]

\* the calls that leave the process: the source-control service (through
\* MCPClient.call_tool) and the completion service
CollaboratorOps ==
    { "get_pr_info", "get_pr_checks", "get_check_logs", "get_pr_diff",
      "get_file_content", "complete", "post_comment" }

\* MCPClient.call_tool raising on an error response
CallError(op) == Exception("Exception", op)

\* the invocation of the fix generator and the completion requests it made
FixCalls(failure_type, g, response) ==
    << Call("generate_fix", <<failure_type>>, g.outcome = "raised") >>
    \o [i \in 1..Len(g.prompts) |-> Call("complete", g.prompts[i], response.failed)]

\* the four values process_pr_failure returns
NoFailuresResult == [status |-> "no_failures", message |-> "No failed CI checks found"]
LowConfidenceResult(d) ==
    [status |-> "low_confidence", diagnosis |-> d,
     message |-> "Unable to confidently diagnose the failure"]
FileNotFoundResult(d) ==
    [status |-> "file_not_found", diagnosis |-> d,
     message |-> "Could not locate the affected file"]

\* the success value, were the affected file left out of it
SuccessResult_NoFile(d, f, path) == [status |-> "success", diagnosis |-> d, fix |-> f]

SuccessResult(d, f, path) ==
    [status |-> "success", diagnosis |-> d, fix |-> f, affected_file |-> path]

\* process_pr_failure returning r
Return(r) == pc' = "returned" /\ result' = r

\* an exception leaving process_pr_failure, which catches none: were it
\* caught and turned into a return value
Raise_Caught(error) == Return(FileNotFoundResult(diagnosis))

\* an exception leaving process_pr_failure, which catches none: were the
\* failed step tried again until max_attempts failures
Raise_Retry(error) ==
    IF Cardinality({ i \in 1..Len(calls) : calls[i].failed }) + 1 < max_attempts
    THEN pc' = pc /\ UNCHANGED result
    ELSE pc' = "raised" /\ result' = [status |-> "raised", error |-> error]

\* an exception leaving process_pr_failure, which catches none: were a
\* failure of the first step passed over and the run carried on
Raise_CarryOn(error) ==
    IF pc = "start"
    THEN pc' = "get_checks" /\ UNCHANGED result
    ELSE pc' = "raised" /\ result' = [status |-> "raised", error |-> error]

\* an exception leaving process_pr_failure, which catches none
Raise(error) == pc' = "raised" /\ result' = [status |-> "raised", error |-> error]

\* the confidence gate, were it to stop a confidence equal to the threshold
BelowThreshold_OrEqual(confidence) == confidence <= threshold

\* diagnosis['confidence'] < self.confidence_threshold
BelowThreshold(confidence) == confidence < threshold

\* [c for c in check_runs if c.get('conclusion') == 'failure'], were every
\* check that did not succeed taken
FailedChecks_NotSuccess(listing) ==
    SelectSeq(listing, LAMBDA c : Get(c, "conclusion", "") # "success")

\* [c for c in check_runs if c.get('conclusion') == 'failure'], were the
\* failed checks taken last first
FailedChecks_LastFirst(listing) ==
    LET failed == SelectSeq(listing, LAMBDA c : Get(c, "conclusion", "") = "failure")
    IN  [i \in 1..Len(failed) |-> failed[Len(failed) + 1 - i]]

\* [c for c in check_runs if c.get('conclusion') == 'failure']
FailedChecks(listing) ==
    SelectSeq(listing, LAMBDA c : Get(c, "conclusion", "") = "failure")

Init ==
    /\ pc = "start"
    /\ threshold \in Thresholds
    /\ max_attempts \in MaxAttempts
    /\ servers = NoServers
    /\ processes = <<>>
    /\ process = NoProcess
    /\ calls = <<>>
    /\ check_runs = <<>>
    /\ logs = <<>>
    /\ diagnosis = NoDiagnosis
    /\ diff = <<>>
    /\ affected_file = NoFile
    /\ file_content = <<>>
    /\ fix = NoFix
    /\ comment = NoComment
    /\ result = NoResult

\* step 1: pr_info = await self.github.get_pr_info(...); call_tool, the
\* first of the run, starts the server, and create_subprocess_exec may raise
GetPRInfo ==
    /\ pc = "start"
    /\ \E spawned \in BOOLEAN, ok \in BOOLEAN :
        IF ~spawned
        THEN /\ Raise(Exception("OSError", "start_server"))
             /\ UNCHANGED << servers, processes, process, calls >>
        ELSE /\ processes' = Append(processes, NewProcess)
             /\ servers' = ("github" :> Len(processes'))
             /\ process' = Len(processes')
             /\ calls' = Append(calls, Call("get_pr_info", <<>>, ~ok))
             /\ IF ok THEN pc' = "get_checks" /\ UNCHANGED result
                ELSE Raise(CallError("get_pr_info"))
    /\ UNCHANGED << threshold, max_attempts,
                    check_runs, logs, diagnosis, diff, affected_file,
                    file_content, fix, comment >>

\* step 2: the listing, the failed checks, the return on none
GetPRChecks ==
    /\ pc = "get_checks"
    /\ \E ok \in BOOLEAN, listing \in CheckListings :
        /\ calls' = Append(calls, Call("get_pr_checks", <<>>, ~ok))
        /\ IF ~ok
           THEN Raise(CallError("get_pr_checks")) /\ UNCHANGED check_runs
           ELSE /\ check_runs' = listing
                /\ IF FailedChecks(listing) = <<>>
                   THEN Return(NoFailuresResult)
                   ELSE pc' = "get_logs" /\ UNCHANGED result
    /\ UNCHANGED << threshold, max_attempts, servers, processes, process,
                    logs, diagnosis, diff, affected_file,
                    file_content, fix, comment >>

\* steps 3 and 4: the logs of the first failed check, analyze, the gate
GetCheckLogs ==
    /\ pc = "get_logs"
    /\ LET check == FailedChecks(check_runs)[1] IN
       \E ok \in BOOLEAN, text \in PipelineLogs :
        IF ~ok
        THEN /\ calls' = Append(calls, Call("get_check_logs", <<check.id>>, TRUE))
             /\ Raise(CallError("get_check_logs"))
             /\ UNCHANGED << logs, diagnosis >>
        ELSE /\ calls' = calls \o << Call("get_check_logs", <<check.id>>, FALSE),
                                     Call("analyze", text, FALSE) >>
             /\ logs' = text
             /\ diagnosis' = analyze(text)
             /\ IF BelowThreshold(diagnosis'.confidence)
                THEN Return(LowConfidenceResult(diagnosis'))
                ELSE pc' = "locate" /\ UNCHANGED result
    /\ UNCHANGED << threshold, max_attempts, servers, processes, process,
                    check_runs, diff, affected_file, file_content,
                    fix, comment >>

\* step 5: _locate_affected_file, with its call of get_pr_diff if it makes it
LocateAffectedFile ==
    /\ pc = "locate"
    /\ IF Has(diagnosis.details, "missing_module")
       THEN \E ok \in BOOLEAN, d \in Diffs :
            /\ calls' = Append(calls, Call("get_pr_diff", <<>>, ~ok))
            /\ IF ~ok
               THEN /\ Raise(CallError("get_pr_diff"))
                    /\ UNCHANGED << diff, affected_file >>
               ELSE /\ diff' = d
                    /\ affected_file' = _locate_affected_file(diagnosis, d)
                    /\ IF ~affected_file'.found \/ affected_file'.path = <<>>
                       THEN Return(FileNotFoundResult(diagnosis))
                       ELSE pc' = "get_file" /\ UNCHANGED result
       ELSE /\ affected_file' = _locate_affected_file(diagnosis, <<>>)
            /\ IF ~affected_file'.found \/ affected_file'.path = <<>>
               THEN Return(FileNotFoundResult(diagnosis))
               ELSE pc' = "get_file" /\ UNCHANGED result
            /\ UNCHANGED << calls, diff >>
    /\ UNCHANGED << threshold, max_attempts, servers, processes, process,
                    check_runs, logs, diagnosis, file_content, fix,
                    comment >>

\* step 6: file_content = await self.github.get_file_content(...)
GetFileContent ==
    /\ pc = "get_file"
    /\ \E ok \in BOOLEAN, text \in FileContents :
        /\ calls' = Append(calls, Call("get_file_content", affected_file.path, ~ok))
        /\ IF ~ok
           THEN Raise(CallError("get_file_content")) /\ UNCHANGED file_content
           ELSE file_content' = text /\ pc' = "generate_fix" /\ UNCHANGED result
    /\ UNCHANGED << threshold, max_attempts, servers, processes, process,
                    check_runs, logs, diagnosis, diff, affected_file,
                    fix, comment >>

\* step 7: fix = await self.fix_generator.generate_fix(...) and the print of it
GenerateFix ==
    /\ pc = "generate_fix"
    /\ \E response \in CompletionResponses :
        LET g == generate_fix(diagnosis.failure_type, diagnosis.details,
                              file_content, affected_file.path, response)
        IN  /\ calls' = calls \o FixCalls(diagnosis.failure_type, g, response)
            /\ IF g.outcome = "raised"
               THEN Raise(g.error) /\ UNCHANGED fix
               ELSE /\ fix' = g.value
                    /\ IF {"fix_type", "confidence"} \subseteq DOMAIN g.value
                       THEN pc' = "post_comment" /\ UNCHANGED result
                       ELSE Raise(Exception("KeyError", "process_pr_failure"))
    /\ UNCHANGED << threshold, max_attempts, servers, processes, process,
                    check_runs, logs, diagnosis, diff, affected_file,
                    file_content, comment >>

\* step 8: the comment, post_comment, the return of success
PostComment ==
    /\ pc = "post_comment"
    /\ IF FormatKeyError(fix)
       THEN /\ Raise(Exception("KeyError", "_format_fix_comment"))
            /\ UNCHANGED << calls, comment >>
       ELSE /\ comment' = _format_fix_comment(diagnosis, fix,
                                              FailedChecks(check_runs)[1].name)
            /\ \E ok \in BOOLEAN :
                /\ calls' = Append(calls, Call("post_comment", <<comment'>>, ~ok))
                /\ IF ok
                   THEN Return(SuccessResult(diagnosis, fix, affected_file.path))
                   ELSE Raise(CallError("post_comment"))
    /\ UNCHANGED << threshold, max_attempts, servers, processes, process,
                    check_runs, logs, diagnosis, diff, affected_file,
                    file_content, fix >>

Next ==
    \/ GetPRInfo
    \/ GetPRChecks
    \/ GetCheckLogs
    \/ LocateAffectedFile
    \/ GetFileContent
    \/ GenerateFix
    \/ PostComment

Spec == Init /\ [][Next]_vars

\* a run under the default configuration
InitLive == Init /\ threshold = 70 /\ max_attempts = 3

\* the run goes on while a step is left: the event loop runs the coroutine
\* to its end
SpecLive == InitLive /\ [][Next]_vars /\ WF_vars(Next)

---------------------------------------------------------------------------
(* main: the run of the command line, process_pr_failure within try and    *)
(* agent.close() in finally.                                               *)

\* the ends of the try block after which agent.close() runs, were there an
\* except-less close after the print instead of finally
ClosePaths_NoFinally == { "printed" }

\* the ends of the try block after which agent.close() runs: finally
ClosePaths == { "printed", "raised" }

\* print(json.dumps(result, indent=2, default=str))
PrintResult ==
    /\ pc = "returned"
    /\ pc' = "printed"
    /\ UNCHANGED << threshold, max_attempts, servers, processes, process,
                    calls, check_runs, logs, diagnosis, diff, affected_file,
                    file_content, fix, comment, result >>

\* MCPClient.close: terminate and wait for every process of self.servers
close(procs) ==
    [pid \in 1..Len(procs) |->
        IF \E name \in DOMAIN servers : servers[name] = pid
        THEN [procs[pid] EXCEPT !.alive = FALSE] ELSE procs[pid]]

\* the try block is left, agent.close() runs where it does, main ends
Close ==
    /\ pc \in { "printed", "raised" }
    /\ processes' = IF pc \in ClosePaths THEN close(processes) ELSE processes
    /\ calls' = IF pc \in ClosePaths
                THEN Append(calls, Call("close", <<>>, FALSE)) ELSE calls
    /\ pc' = "exited"
    /\ UNCHANGED << threshold, max_attempts, servers, process, check_runs,
                    logs, diagnosis, diff, affected_file, file_content, fix,
                    comment, result >>

NextCLI == Next \/ PrintResult \/ Close

\* asyncio.run(main()) runs main to its end
SpecCLI == InitLive /\ [][NextCLI]_vars /\ WF_vars(NextCLI)

---------------------------------------------------------------------------
(* generate_fix alone, on any category, details, file content and path.    *)

\* the names a details value may hold
DetailNames == { <<T_W>>, <<"requests">>, <<>> }

\* the details generate_fix may be given
FixDetails ==
    { EmptyDict }
    \cup { k :> n : k \in { "missing_module", "missing_path", "package_name" },
                    n \in DetailNames }

\* the paths generate_fix may be given
FixPaths == { <<"app.py">>, <<"src/app.py">> }

InitFix ==
    /\ pc = "generate_fix_alone"
    /\ threshold = 70
    /\ max_attempts = 3
    /\ servers = NoServers
    /\ processes = <<>>
    /\ process = NoProcess
    /\ calls = <<>>
    /\ check_runs = <<>>
    /\ logs = <<>>
    /\ \E t \in FailureType, d \in FixDetails :
        diagnosis = [ UnmatchedResult(<<>>) EXCEPT !.failure_type = t, !.details = d ]
    /\ diff = <<>>
    /\ \E path \in FixPaths : affected_file = [found |-> TRUE, path |-> path]
    /\ file_content \in FileContents
    /\ fix = NoFix
    /\ comment = NoComment
    /\ result = NoResult

\* await self.fix_generator.generate_fix(failure_type, details, content, path)
GenerateFixCall ==
    /\ pc = "generate_fix_alone"
    /\ \E response \in CompletionResponses :
        LET g == generate_fix(diagnosis.failure_type, diagnosis.details,
                              file_content, affected_file.path, response)
        IN  /\ calls' = calls \o FixCalls(diagnosis.failure_type, g, response)
            /\ IF g.outcome = "raised"
               THEN Raise(g.error) /\ UNCHANGED fix
               ELSE fix' = g.value /\ Return([status |-> "fix_returned"])
    /\ UNCHANGED << threshold, max_attempts, servers, processes, process,
                    check_runs, logs, diagnosis, diff, affected_file,
                    file_content, comment >>

NextFix == GenerateFixCall

SpecFix == InitFix /\ [][NextFix]_vars

---------------------------------------------------------------------------
(* MCPClient.call_tool under two invocations that share the client: each   *)
(* invocation makes one call; a step runs from one suspension point        *)
(* (await) to the next.  Here pc, process and result are per invocation.   *)

Invocations == { 1, 2 }

\* the request of call_tool: the id is always 1, the arguments the caller's
Request(i) == [id |-> 1, arguments |-> i]

\* the line the server answers a request with
Response(request, ok) == [id |-> 1, of |-> request.arguments, error |-> ~ok]

NoResponse == [id |-> 0, of |-> 0, error |-> FALSE]

\* the end of call_tool on a response line: raise on "error", else return
Outcome(response) ==
    IF response.error
    THEN [status |-> "raised", error |-> Exception("Exception", "call_tool"),
          response |-> response]
    ELSE [status |-> "returned", response |-> response]

\* process.stdout.readline() by invocation i: a buffered line is taken,
\* whoever it answers; with none, a second reader gets RuntimeError and a
\* first one waits
readline(i, pid, procs) ==
    IF procs[pid].stdout # <<>>
    THEN [at |-> "done",
          processes |-> [procs EXCEPT ![pid].stdout = Tail(@)],
          result |-> Outcome(Head(procs[pid].stdout))]
    ELSE IF procs[pid].waiter # 0
    THEN [at |-> "done", processes |-> procs,
          result |-> [status |-> "raised",
                      error |-> Exception("RuntimeError", "readline"),
                      response |-> NoResponse]]
    ELSE [at |-> "reading",
          processes |-> [procs EXCEPT ![pid].waiter = i],
          result |-> NoResult]

\* response_line = await process.stdout.readline() and what follows it
Read(i, pid, procs) ==
    LET r == readline(i, pid, procs) IN
    /\ pc' = [pc EXCEPT ![i] = r.at]
    /\ processes' = r.processes
    /\ result' = [result EXCEPT ![i] = r.result]

\* process = self.servers[server_name]; stdin.write; await stdin.drain(),
\* which suspends if the pipe is full
Send(i, pid, procs) ==
    LET written == [procs EXCEPT ![pid].stdin = Append(@, Request(i))] IN
    /\ process' = [process EXCEPT ![i] = pid]
    /\ \E paused \in BOOLEAN :
        IF paused
        THEN /\ pc' = [pc EXCEPT ![i] = "draining"]
             /\ processes' = written
             /\ UNCHANGED result
        ELSE Read(i, pid, written)

InitShared ==
    /\ pc = [i \in Invocations |-> "start"]
    /\ threshold = 70
    /\ max_attempts = 3
    /\ servers = NoServers
    /\ processes = <<>>
    /\ process = [i \in Invocations |-> NoProcess]
    /\ calls = <<>>
    /\ check_runs = <<>>
    /\ logs = <<>>
    /\ diagnosis = NoDiagnosis
    /\ diff = <<>>
    /\ affected_file = NoFile
    /\ file_content = <<>>
    /\ fix = NoFix
    /\ comment = NoComment
    /\ result = [i \in Invocations |-> NoResult]

\* call_tool is entered: with the server unknown it awaits start_server,
\* which awaits create_subprocess_exec
CallTool(i) ==
    /\ pc[i] = "start"
    /\ IF "github" \in DOMAIN servers
       THEN Send(i, servers["github"], processes)
       ELSE /\ pc' = [pc EXCEPT ![i] = "spawning"]
            /\ UNCHANGED << processes, process, result >>
    /\ UNCHANGED << threshold, max_attempts, servers, calls, check_runs, logs,
                    diagnosis, diff, affected_file, file_content, fix,
                    comment >>

\* create_subprocess_exec returns: self.servers[server_name] = process
Spawned(i) ==
    /\ pc[i] = "spawning"
    /\ LET procs == Append(processes, NewProcess) IN
        /\ servers' = ("github" :> Len(procs))
        /\ Send(i, Len(procs), procs)
    /\ UNCHANGED << threshold, max_attempts, calls, check_runs, logs,
                    diagnosis, diff, affected_file, file_content, fix,
                    comment >>

\* drain returns
Drained(i) ==
    /\ pc[i] = "draining"
    /\ Read(i, process[i], processes)
    /\ UNCHANGED << threshold, max_attempts, servers, process, calls,
                    check_runs, logs, diagnosis, diff, affected_file,
                    file_content, fix, comment >>

\* a server takes its next request and answers it; the line reaches the
\* reader, which wakes the invocation waiting for data
Serve(pid) ==
    /\ processes[pid].stdin # <<>>
    /\ \E ok \in BOOLEAN :
        processes' = [processes EXCEPT
            ![pid].stdin = Tail(@),
            ![pid].stdout = Append(@, Response(Head(processes[pid].stdin), ok)),
            ![pid].waiter = 0]
    /\ pc' = [i \in Invocations |->
                IF processes[pid].waiter = i THEN "woken" ELSE pc[i]]
    /\ UNCHANGED << threshold, max_attempts, servers, process, calls,
                    check_runs, logs, diagnosis, diff, affected_file,
                    file_content, fix, comment, result >>

\* the woken invocation runs again: readline looks at the buffer anew
Resume(i) ==
    /\ pc[i] = "woken"
    /\ Read(i, process[i], processes)
    /\ UNCHANGED << threshold, max_attempts, servers, process, calls,
                    check_runs, logs, diagnosis, diff, affected_file,
                    file_content, fix, comment >>

NextShared ==
    \/ \E i \in Invocations : CallTool(i)
    \/ \E i \in Invocations : Spawned(i)
    \/ \E i \in Invocations : Drained(i)
    \/ \E pid \in 1..Len(processes) : Serve(pid)
    \/ \E i \in Invocations : Resume(i)

SpecShared == InitShared /\ [][NextShared]_vars

---------------------------------------------------------------------------
(* The claims about analyze, checked under SpecAnalyze.                    *)

Range(f) == { f[x] : x \in DOMAIN f }

\* the keywords as the claims list them
ClaimKeywords == { "error", "failed", "exception", "traceback", "modulenotfounderror" }

\* some line of the text holds a keyword, case ignored
SomeKeywordLine(text) ==
    \E j \in 1..Len(text) : KeywordsIn(Lower(text[j])) \cap ClaimKeywords # {}

\* the categories in the order the claims declare them
DeclaredOrder ==
    << MODULE_NOT_FOUND, IMPORT_ERROR, MISSING_DEPENDENCY, BROKEN_PATH, SYNTAX_ERROR >>

\* the positions in DeclaredOrder of the categories a pattern of which matches
MatchingCategories(text) ==
    { c \in 1..Len(DeclaredOrder) :
        \E e \in Range(PATTERNS) :
            /\ e.failure_type = DeclaredOrder[c]
            /\ \E q \in Range(e.patterns) : Search(q, text).found }

FirstDeclaredMatching(text) ==
    DeclaredOrder[CHOOSE c \in MatchingCategories(text) :
                    \A d \in MatchingCategories(text) : c <= d]

Analyzed == pc = "analyzed"

\* C1 as stated: whenever some pattern of the table matches the log, analyze
\* returns the first declared category among those with a matching pattern.
C1_AsStated ==
    (Analyzed /\ MatchingCategories(logs) # {})
        => diagnosis.failure_type = FirstDeclaredMatching(logs)

\* C1 amended: whenever some pattern of the table matches the log and some
\* line of the log holds a keyword, analyze returns the first declared
\* category among those with a matching pattern, wherever the matches are.
C1_FirstDeclaredCategory ==
    (Analyzed /\ MatchingCategories(logs) # {} /\ SomeKeywordLine(logs))
        => diagnosis.failure_type = FirstDeclaredMatching(logs)

\* a log where SyntaxError matches first in the text and ImportError after it
C1_Witness ==
    /\ Analyzed
    /\ logs = <<T_SE, T_IE, T_W>>
    /\ MatchingCategories(logs) = {2, 5}
    /\ diagnosis.failure_type = IMPORT_ERROR

\* C2: a log no line of which holds a keyword gets category Unknown,
\* confidence 0.0, and empty logSnippet, errorMessage and details.
C2_NoKeywordIsUnknown ==
    (Analyzed /\ ~SomeKeywordLine(logs))
        => /\ diagnosis.failure_type = UNKNOWN
           /\ diagnosis.confidence = 0
           /\ diagnosis.log_snippet = <<>>
           /\ diagnosis.error_message = <<>>
           /\ DOMAIN diagnosis.details = {}

\* a log without keyword in which a pattern of the table matches all the same
C2_Witness ==
    /\ Analyzed
    /\ ~SomeKeywordLine(logs)
    /\ MatchingCategories(logs) # {}
    /\ diagnosis.failure_type = UNKNOWN

\* C10: every diagnosis has confidence 0.0, 0.3 or 0.9; its category is not
\* Unknown iff its confidence is 0.9 iff its errorMessage is not empty; and
\* its details are empty when its category is Unknown.
C10_DiagnosisInvariant ==
    Analyzed =>
        /\ diagnosis.confidence \in {0, 30, 90}
        /\ (diagnosis.failure_type # UNKNOWN) <=> (diagnosis.confidence = 90)
        /\ (diagnosis.confidence = 90) <=> (diagnosis.error_message # <<>>)
        /\ (diagnosis.failure_type = UNKNOWN) => (DOMAIN diagnosis.details = {})

\* the three confidences are all met: here a matched pattern with details
C10_Witness ==
    /\ Analyzed
    /\ diagnosis.failure_type = MISSING_DEPENDENCY
    /\ diagnosis.confidence = 90
    /\ DOMAIN diagnosis.details = {"package_name"}

---------------------------------------------------------------------------
(* The claims about process_pr_failure, checked under Spec.                *)

\* the operations called so far, in order
CallOps == [i \in 1..Len(calls) |-> calls[i].op]

Called(op) == \E i \in 1..Len(calls) : calls[i].op = op

\* the call of op returned
Answered(op) == \E i \in 1..Len(calls) : calls[i].op = op /\ ~calls[i].failed

Diagnosed == diagnosis # NoDiagnosis

\* what follows the gate
AfterGateOps ==
    { "get_pr_diff", "get_file_content", "generate_fix", "complete", "post_comment" }

\* the run has ended by returning the low-confidence outcome with the diagnosis
AtLowConfidence ==
    /\ pc = "returned"
    /\ result.status = "low_confidence"
    /\ result.diagnosis = diagnosis

\* C3: once the log is diagnosed, the run has ended at LowConfidence with
\* the diagnosis exactly if the confidence is strictly below the threshold;
\* such a run calls neither get_pr_diff, get_file_content, the fix generator,
\* the completion service nor post_comment; a confidence equal to the
\* threshold is past the gate, at the location of the file or beyond.
C3_ConfidenceGate ==
    Diagnosed =>
        /\ AtLowConfidence <=> diagnosis.confidence < threshold
        /\ AtLowConfidence => \A op \in AfterGateOps : ~Called(op)
        /\ AtLowConfidence => ~ENABLED Next
        /\ diagnosis.confidence = threshold =>
            /\ pc \in { "locate", "get_file", "generate_fix", "post_comment",
                        "returned", "raised" }
            /\ pc = "returned" => result.status \in { "file_not_found", "success" }
            /\ pc = "raised" => \E op \in AfterGateOps : Called(op)

\* a diagnosis of confidence 0.3 under the threshold 0.7 ends the run
C3_Witness ==
    /\ AtLowConfidence
    /\ diagnosis.confidence = 30
    /\ threshold = 70
    /\ CallOps = << "get_pr_info", "get_pr_checks", "get_check_logs", "analyze" >>

\* the listing get_pr_checks returned has no entry of conclusion failure
NoFailureEntry ==
    /\ Answered("get_pr_checks")
    /\ \A i \in 1..Len(check_runs) : check_runs[i].conclusion # "failure"

\* C4: when the listing has no entry of conclusion failure the run ends at
\* NoFailures, and get_pr_info and get_pr_checks are all it has called: not
\* analyze, and no other collaborator.
C4_NoFailures ==
    NoFailureEntry =>
        /\ pc = "returned"
        /\ result.status = "no_failures"
        /\ CallOps = << "get_pr_info", "get_pr_checks" >>
        /\ ~Diagnosed
        /\ ~ENABLED Next

\* a listing of checks none of which failed, one of them neutral
C4_Witness ==
    /\ NoFailureEntry
    /\ \E i \in 1..Len(check_runs) : check_runs[i].conclusion = "neutral"
    /\ result = NoFailuresResult

\* the exception a collaborator raises on failing
FailureOf(op) ==
    IF op = "complete" THEN [type |-> "APIError", origin |-> "completion"]
    ELSE [type |-> "Exception", origin |-> op]

\* C5: a failed call of a collaborator is the last call of the run, and the
\* run has ended by raising that call's exception, returning no outcome.
C5_FailurePropagates ==
    \A i \in 1..Len(calls) :
        (calls[i].op \in CollaboratorOps /\ calls[i].failed) =>
            /\ i = Len(calls)
            /\ pc = "raised"
            /\ result = [status |-> "raised", error |-> FailureOf(calls[i].op)]
            /\ comment = NoComment \/ calls[i].op = "post_comment"
            /\ ~ENABLED Next

\* get_file_content failed: nothing after it, no comment
C5_Witness ==
    /\ pc = "raised"
    /\ Len(calls) > 0
    /\ calls[Len(calls)].op = "get_file_content"
    /\ calls[Len(calls)].failed
    /\ result.error = FailureOf("get_file_content")
    /\ ~Called("post_comment")

\* a ChangeOp: file, action (insert, replace or delete), old and new
\* content; the line number is optional
WellFormedChangeOp(c) ==
    /\ { "file", "action", "old_content", "new_content" } \subseteq DOMAIN c
    /\ c.action \in { "insert", "replace", "delete" }

\* a FixProposal: the four required fields, changes a sequence of ChangeOps
WellFormedFixProposal(f) ==
    /\ { "fix_type", "changes", "explanation", "confidence" } \subseteq DOMAIN f
    /\ \A i \in 1..Len(f.changes) : WellFormedChangeOp(f.changes[i])

\* the completion service answered, and generate_fix raised
FixRejected ==
    \E i \in 1..Len(calls) :
        /\ calls[i].op = "generate_fix" /\ calls[i].failed
        /\ \A j \in 1..Len(calls) : calls[j].op = "complete" => ~calls[j].failed

\* C6 as stated: a completion that is no well-formed FixProposal makes
\* generate_fix fail with MalformedResponseError; the orchestrator never
\* holds such a value as its fix, and no KeyError of the rendering ends a run.
C6_AsStated ==
    /\ fix # NoFix => WellFormedFixProposal(fix)
    /\ FixRejected => result.error.type = "MalformedResponseError"
    /\ pc = "raised" => result.error.type # "KeyError"

\* the run holds as its fix a completion without the changes field, and has
\* ended with the KeyError of _format_fix_comment
C6_MalformedFixReturned ==
    /\ fix = Without(BaseFix, "changes")
    /\ pc = "raised"
    /\ result.error = [type |-> "KeyError", origin |-> "_format_fix_comment"]
    /\ ~Called("post_comment")

\* the four outcomes
Outcomes == { "no_failures", "low_confidence", "file_not_found", "success" }

\* the fields an outcome carries besides its status: the payload of its
\* variant and, where the run stopped early, the message
OutcomeFields(status) ==
    CASE status = "no_failures" -> { "message" }
      [] status = "low_confidence" -> { "diagnosis", "message" }
      [] status = "file_not_found" -> { "diagnosis", "message" }
      [] status = "success" -> { "diagnosis", "fix", "affected_file" }

FirstOf(seq, f(_)) ==
    LET hits == { i \in 1..Len(seq) : f(seq[i]) # <<>> } IN
    IF hits = {} THEN <<>>
    ELSE f(seq[CHOOSE i \in hits : \A h \in hits : i <= h])

\* the path p names the file the reference names: the reference without
\* leading '.' and '/' characters
Names(p, reference) ==
    \E k \in 1..Len(reference) :
        /\ \A j \in 1..(k - 1) : reference[j] \in { ".", "/" }
        /\ reference[k] \notin { ".", "/" }
        /\ p = SubSeq(reference, k, Len(reference))

\* the run is past the gate and past the location of the file
Located ==
    /\ Diagnosed
    /\ diagnosis.confidence >= threshold
    /\ pc # "locate"
    /\ \A i \in 1..Len(calls) : calls[i].op = "get_pr_diff" => ~calls[i].failed

\* what follows the location of the file
AfterLocateOps == { "get_file_content", "generate_fix", "complete", "post_comment" }

---------------------------------------------------------------------------
(* The claim about generate_fix, checked under SpecFix.                    *)

\* C7: for MissingDependency and details holding package_name = p,
\* generate_fix asks the completion service nothing and returns, whatever
\* the file content and path, fix type add_dependency, confidence 0.85 and
\* one ChangeOp: insert, requirements.txt, line -1, empty old content, new
\* content p and a line break.
C7_MissingDependencyFix ==
    ( /\ pc # "generate_fix_alone"
      /\ diagnosis.failure_type = MISSING_DEPENDENCY
      /\ "package_name" \in DOMAIN diagnosis.details ) =>
        /\ pc = "returned"
        /\ CallOps = << "generate_fix" >>
        /\ fix.fix_type = "add_dependency"
        /\ fix.confidence = 85
        /\ Len(fix.changes) = 1
        /\ fix.changes[1].action = "insert"
        /\ fix.changes[1].file = <<"requirements.txt">>
        /\ fix.changes[1].line_number = -1
        /\ fix.changes[1].old_content = <<>>
        /\ fix.changes[1].new_content = diagnosis.details["package_name"] \o <<NL>>

\* the fix for package_name = numpy, given a file content and a path
C7_Witness ==
    /\ pc = "returned"
    /\ diagnosis.failure_type = MISSING_DEPENDENCY
    /\ diagnosis.details = ("package_name" :> <<T_W>>)
    /\ file_content = <<"import nunpy">>
    /\ affected_file.path = <<"src/app.py">>
    /\ fix.changes[1].new_content = <<"numpy", NL>>

---------------------------------------------------------------------------
(* The claim about the log snippet, checked under SpecSnippet.             *)

\* the indexes, counted from 0, of the lines that hold a keyword
KeywordLines(lines) ==
    { i \in 0..(Len(lines) - 1) :
        \E j \in 1..Len(lines[i + 1]) :
            KeywordsIn(Lower(lines[i + 1][j])) \cap ClaimKeywords # {} }

\* the lines of index lo to hi - 1
LinesFrom(lines, lo, hi) == [k \in 1..(hi - lo) |-> lines[lo + k]]

\* the window [i-2, i+6) of line i, clipped to the log
Window(lines, i) ==
    LinesFrom(lines, IF i < 2 THEN 0 ELSE i - 2,
                     IF i + 6 > Len(lines) THEN Len(lines) ELSE i + 6)

\* the windows of the keyword lines, one after the other by line index
ConcatWindows(lines) ==
    LET Upto[m \in 0..Len(lines)] ==
            IF m = 0 THEN <<>>
            ELSE Upto[m - 1] \o (IF (m - 1) \in KeywordLines(lines)
                                 THEN Window(lines, m - 1) ELSE <<>>)
    IN  Upto[Len(lines)]

\* C11: for a log with a keyword line, logSnippet is the first min(10, n)
\* lines of the windows [i-2, i+6) of the keyword lines i, clipped to the
\* log and concatenated by increasing i with the repeated lines kept, n
\* being the length of the concatenation; it has at most 10 lines.
C11_SnippetWindows ==
    (Analyzed /\ KeywordLines(Split(logs)) # {}) =>
        LET all == ConcatWindows(Split(logs))
            snippet == Split(diagnosis.log_snippet)
        IN  /\ Len(snippet) = (IF Len(all) < 10 THEN Len(all) ELSE 10)
            /\ \A k \in 1..Len(snippet) : snippet[k] = all[k]

\* two keyword lines whose windows overlap and make 11 lines: 10 are kept
C11_Witness ==
    /\ Analyzed
    /\ KeywordLines(Split(logs)) = {2, 3}
    /\ Len(Split(logs)) = 6
    /\ Len(ConcatWindows(Split(logs))) = 11
    /\ Len(Split(diagnosis.log_snippet)) = 10

---------------------------------------------------------------------------
(* Further claims about process_pr_failure, checked under Spec.            *)

\* how many times op has been called
TimesCalled(op) == Cardinality({ i \in 1..Len(calls) : calls[i].op = op })

\* C12: no retry: each collaborator operation is called at most once in a
\* run, a failed call is followed by no call at all, and this is so for
\* every value of max_attempts.
C12_NoRetry ==
    /\ \A op \in CollaboratorOps : TimesCalled(op) <= 1
    /\ \A i \in 1..Len(calls) :
        (calls[i].op \in CollaboratorOps /\ calls[i].failed) =>
            \A j \in 1..Len(calls) : j > i => calls[j].op # calls[i].op
    /\ Len(calls) <= Cardinality(CollaboratorOps) + 2

\* get_check_logs failed with three attempts allowed: it was called once
C12_Witness ==
    /\ max_attempts = 3
    /\ pc = "raised"
    /\ calls # <<>>
    /\ calls[Len(calls)] = Call("get_check_logs", <<1>>, TRUE)
    /\ TimesCalled("get_check_logs") = 1

---------------------------------------------------------------------------
(* The claim about concurrent invocations, checked under SpecShared.       *)

\* invocation i has left call_tool
Left(i) == pc[i] = "done"

\* C13 as stated: two invocations that share the client are independent:
\* the call of each ends on the response to its own request, as it would
\* alone, where it returns the result or raises the server's error.
C13_AsStated ==
    \A i \in Invocations :
        Left(i) =>
            /\ result[i].response.of = i
            /\ result[i].status = "raised" => result[i].error.type = "Exception"

\* invocation 2 returned the answer to the request of invocation 1
C13_CrossedResponse ==
    /\ Left(2)
    /\ result[2].status = "returned"
    /\ result[2].response.of = 1
    /\ process[1] = process[2]

---------------------------------------------------------------------------
(* The claim about repeated calls of analyze, checked under SpecCalls.     *)

---------------------------------------------------------------------------
(* The claim about the end of a run, checked under SpecLive.               *)

Terminated == pc \in { "returned", "raised" }

\* no call of a collaborator failed
AllCallsSucceeded ==
    \A i \in 1..Len(calls) : calls[i].op \in CollaboratorOps => ~calls[i].failed

\* the fix generator returned a well-formed proposal
WellFormedFixReturned == fix # NoFix /\ WellFormedFixProposal(fix)

\* C15: the fix confidence is no gate: every run ends, and a run in which
\* no collaborator call failed and the fix generator returned a well-formed
\* proposal has, once the proposal is there, only the comment left to post,
\* and ends at Success with that fix and the comment posted, whatever the
\* confidence of the fix.
C15_FixConfidenceNoGate ==
    /\ <>Terminated
    /\ [](WellFormedFixReturned =>
            pc = "post_comment" \/ (Terminated /\ Called("post_comment")))
    /\ []((Terminated /\ WellFormedFixReturned /\ AllCallsSucceeded) =>
            /\ result.status = "success"
            /\ result.fix = fix
            /\ Answered("post_comment"))

\* a fix of confidence 0.1 under the threshold 0.7: posted, Success
C15_Witness ==
    /\ WellFormedFixReturned
    /\ fix.confidence = 10
    /\ threshold = 70
    /\ diagnosis.confidence = 90
    /\ AllCallsSucceeded
    /\ result.status = "success"
    /\ calls[Len(calls)] = Call("post_comment", <<comment>>, FALSE)
    /\ comment.fix_confidence = 10

---------------------------------------------------------------------------
(* The claim about the command-line run, checked under SpecCLI.            *)

\* the command has ended
Exited == pc = "exited"

\* process pid runs
Alive(pid) == processes[pid].alive

\* C16: whether process_pr_failure returns an outcome or raises, the
\* command comes to its end, close has been called by then, after the run
\* and as the last call, and no server process started in the run is left
\* running.
C16_ClosedOnEveryPath ==
    /\ <>Exited
    /\ [](Exited =>
            /\ result.status \in Outcomes \cup { "raised" }
            /\ TimesCalled("close") = 1
            /\ calls[Len(calls)].op = "close"
            /\ \A pid \in 1..Len(processes) : ~Alive(pid))
    /\ [](~Exited => ~Called("close"))

\* get_check_logs failed, the error left process_pr_failure, close was
\* called and the github server is terminated
C16_Witness ==
    /\ Exited
    /\ result = [status |-> "raised", error |-> CallError("get_check_logs")]
    /\ Len(processes) = 1
    /\ servers = ("github" :> 1)
    /\ ~Alive(1)
    /\ calls[Len(calls)].op = "close"

---------------------------------------------------------------------------
(* The claim about the rendering of the comment, checked under Spec.       *)

\* a comment was posted
Posted == Answered("post_comment")

Actions == { "insert", "replace", "delete" }

\* the lines the detail section is to show for a change
DiffLines(c) ==
    CASE c.action = "insert" -> << <<"+ ">> \o c.new_content >>
      [] c.action = "replace" -> << <<"- ">> \o c.old_content,
                                    <<"+ ">> \o c.new_content >>
      [] c.action = "delete" -> << <<"- ">> \o c.old_content >>

\* the runs of one or more consecutive lines of a sequence of lines
Runs(lines) ==
    { SubSeq(lines, a, b) : a \in 1..Len(lines), b \in 1..Len(lines) } \ { <<>> }

\* the lines of a text, none for the empty text
Lines(text) == IF text = <<>> THEN <<>> ELSE Split(text)

\* the number of lines of a text
NumLines(text) == Len(Lines(text))

\* text is, change by change and in order, a rendering of changes: the
\* DiffLines of a change of one of the three actions, and one or more of
\* the lines of the text for any other change
RendersAll(text, changes) ==
    \E blocks \in [1..Len(changes) ->
                    Runs(Lines(text)) \cup { DiffLines(changes[j]) :
                        j \in { k \in 1..Len(changes) : changes[k].action \in Actions } }] :
        /\ \A i \in 1..Len(changes) :
            changes[i].action \in Actions => blocks[i] = DiffLines(changes[i])
        /\ Join(Concat(blocks)) = text

\* C17 as stated: in every posted comment the detail section renders every
\* change of fix.changes, in order and none omitted, a + line for an insert,
\* a - line and a + line for a replace, a - line for a delete; and the
\* summary list has exactly one line per change.
C17_AsStated ==
    Posted =>
        /\ RendersAll(comment.changes_detail, fix.changes)
        /\ NumLines(comment.changes_text) = Len(fix.changes)

\* what holds of every posted comment: the changes of the three actions are
\* rendered in order as stated, a change of another action is left out of
\* the detail section, and the summary list has one line per change
KnownActionsRendered ==
    Posted =>
        /\ comment.changes_detail =
            Join(Concat([i \in 1..Len(fix.changes) |->
                    IF fix.changes[i].action \in Actions
                    THEN DiffLines(fix.changes[i]) ELSE <<>>]))
        /\ NumLines(comment.changes_text) = Len(fix.changes)

\* a comment was posted for a fix of two changes, an insert and a move, and
\* its detail section shows the insert alone
C17_ChangeOmitted ==
    /\ Posted
    /\ Len(fix.changes) = 2
    /\ fix.changes[1] = OpInsert
    /\ fix.changes[2].action = "move"
    /\ comment.changes_detail = <<"+ ", "import numpy">>
    /\ NumLines(comment.changes_text) = 2

---------------------------------------------------------------------------
(* The claim about the order of the steps, checked under Spec.             *)

\* the steps of the pipeline, in the order of the claim
StepOrder ==
    << "get_pr_info", "get_pr_checks", "get_check_logs", "analyze",
       "get_pr_diff", "get_file_content", "generate_fix", "post_comment" >>

\* the place of a step in StepOrder
Rank(op) == CHOOSE k \in 1..Len(StepOrder) : StepOrder[k] = op

\* the steps of the run so far, as they started
Steps == SelectSeq(calls, LAMBDA c : c.op \in Range(StepOrder))

\* C18: the steps of a run happen in the order get_pr_info, get_pr_checks,
\* get_check_logs, analyze, [get_pr_diff], get_file_content, generate_fix,
\* post_comment, none but get_pr_diff left out and none twice, each starting
\* only after the one before it returned; success is returned only after
\* post_comment returned, and a comment is posted in the runs that return
\* success and in no other; the no_failures, low_confidence and
\* file_not_found runs do not call post_comment.
C18_StepOrder ==
    /\ Steps # <<>> => Steps[1].op = "get_pr_info"
    /\ \A i \in 2..Len(Steps) :
        /\ ~Steps[i - 1].failed
        /\ \/ Rank(Steps[i].op) = Rank(Steps[i - 1].op) + 1
           \/ /\ Steps[i].op = "get_file_content"
              /\ Steps[i - 1].op = "analyze"
    /\ result.status = "success" =>
        /\ Steps # <<>>
        /\ Steps[Len(Steps)] = Call("post_comment", <<comment>>, FALSE)
        /\ calls[Len(calls)] = Steps[Len(Steps)]
    /\ Answered("post_comment") => result.status = "success"
    /\ result.status \in { "no_failures", "low_confidence", "file_not_found" } =>
        ~Called("post_comment") /\ comment = NoComment

\* a run through all eight steps that returned success
C18_Witness ==
    /\ result.status = "success"
    /\ [i \in 1..Len(Steps) |-> Steps[i].op] = StepOrder
    /\ \A i \in 1..Len(Steps) : ~Steps[i].failed

---------------------------------------------------------------------------
(* The claim about the path taken from the traceback, checked under Spec.  *)

\* the run located the file from the File reference of the log snippet
LocatedFromTraceback ==
    /\ Located
    /\ (IF Called("get_pr_diff") THEN FirstOf(diff, DiffPath) ELSE <<>>) = <<>>
    /\ FirstOf(diagnosis.log_snippet, FilePath) # <<>>

\* a path without one leading "./", if it has one
WithoutDotSlash(p) ==
    IF Len(p) >= 2 /\ p[1] = "." /\ p[2] = "/" THEN SubSeq(p, 3, Len(p)) ELSE p

\* C19 as stated: a path located from the traceback is the first
\* File "<path>.py" match of the log snippet with exactly one leading "./"
\* removed if it has one, and otherwise the matched path unchanged, so that
\* "../pkg/a.py" keeps its leading characters.
C19_AsStated ==
    LocatedFromTraceback =>
        /\ affected_file.found
        /\ affected_file.path =
            WithoutDotSlash(FirstOf(diagnosis.log_snippet, FilePath))

\* the traceback names ../pkg/a.py, the path located is pkg/a.py, and
\* get_file_content was asked for pkg/a.py
C19_ParentPathStripped ==
    /\ LocatedFromTraceback
    /\ FirstOf(diagnosis.log_snippet, FilePath) = <<".", ".", "/", "pkg/a.py">>
    /\ affected_file = [found |-> TRUE, path |-> <<"pkg/a.py">>]
    /\ \E i \in 1..Len(calls) :
        calls[i].op = "get_file_content" /\ calls[i].arg = <<"pkg/a.py">>

---------------------------------------------------------------------------
(* The claim about errorMessage and details, checked under SpecReport.     *)

\* the patterns declared for a category, in their order
Declared(category) ==
    (CHOOSE e \in Range(PATTERNS) : e.failure_type = category).patterns

\* the first declared pattern of a category that occurs in the text
FirstDeclaredPattern(category, text) ==
    LET ps == Declared(category)
        n == CHOOSE n \in 1..Len(ps) :
                /\ \E i \in 1..Len(text) : MatchAt(ps[n], text, i).found
                /\ \A k \in 1..(n - 1) :
                    \A i \in 1..Len(text) : ~MatchAt(ps[k], text, i).found
    IN  ps[n]

\* the leftmost occurrence of a pattern in the text
Leftmost(q, text) ==
    MatchAt(q, text, CHOOSE i \in 1..Len(text) :
                        /\ MatchAt(q, text, i).found
                        /\ \A k \in 1..(i - 1) : ~MatchAt(q, text, k).found)

\* the pattern has a capture group
HasGroup(q) == q.kind # "literal"

\* the key of details the claim gives a category
DetailKey(category) ==
    CASE category = MODULE_NOT_FOUND -> "missing_module"
      [] category = BROKEN_PATH -> "missing_path"
      [] category = MISSING_DEPENDENCY -> "package_name"

\* C20: on a match, errorMessage and details come from the leftmost
\* occurrence in the whole log of the first declared pattern of the winning
\* category that matches: errorMessage is the matched text, and details has
\* exactly missing_module = group 1 for ModuleNotFound, missing_path =
\* group 1 for BrokenPath, package_name = group 1 for MissingDependency if
\* the pattern has a group, and no key otherwise.
C20_MatchedPatternDetails ==
    (Analyzed /\ diagnosis.failure_type # UNKNOWN) =>
        LET category == diagnosis.failure_type
            m == Leftmost(FirstDeclaredPattern(category, logs), logs)
        IN  /\ diagnosis.error_message = m.group0
            /\ diagnosis.details =
                IF \/ category \in { MODULE_NOT_FOUND, BROKEN_PATH }
                   \/ /\ category = MISSING_DEPENDENCY
                      /\ HasGroup(FirstDeclaredPattern(category, logs))
                THEN (DetailKey(category) :> m.groups[1])
                ELSE EmptyDict

\* the pattern occurs in the first line, which is no line of the snippet,
\* and again in the fourth, which is one: the first occurrence gives the
\* package name
C20_Witness ==
    /\ Analyzed
    /\ logs = <<T_NMD, T_W, NL, T_W, NL, T_W, NL, T_NMD, T_TB>>
    /\ diagnosis.log_snippet = <<T_W, NL, T_W, NL, T_NMD, T_TB>>
    /\ diagnosis.failure_type = MISSING_DEPENDENCY
    /\ diagnosis.error_message = <<T_NMD, T_W>>
    /\ diagnosis.details = ("package_name" :> <<T_W>>)

---------------------------------------------------------------------------
(* The claim about the check that is analyzed, checked under Spec.         *)

\* the places of the listing get_pr_checks returned whose entry has
\* conclusion failure
FailureEntries ==
    { i \in 1..Len(check_runs) : check_runs[i].conclusion = "failure" }

\* the first of them in listing order
FirstFailure ==
    check_runs[CHOOSE i \in FailureEntries : \A j \in FailureEntries : i <= j]

\* the calls of get_check_logs of the run
LogFetches == SelectSeq(calls, LAMBDA c : c.op = "get_check_logs")

\* C21: when the listing has an entry of conclusion failure, the run
\* fetches the logs of one check at most, the first such entry in listing
\* order, whatever entries of other conclusions come before it and whatever
\* failed checks after it; what is analyzed is the logs fetched for it, and
\* the comment names that check.
C21_FirstFailedCheck ==
    (Answered("get_pr_checks") /\ FailureEntries # {}) =>
        /\ Len(LogFetches) <= 1
        /\ \A i \in 1..Len(LogFetches) : LogFetches[i].arg = <<FirstFailure.id>>
        /\ pc # "get_logs" => Len(LogFetches) = 1
        /\ \A i \in 1..Len(calls) :
            calls[i].op = "analyze" =>
                /\ calls[i - 1] = Call("get_check_logs", <<FirstFailure.id>>, FALSE)
                /\ calls[i].arg = logs
                /\ TimesCalled("analyze") = 1
        /\ comment # NoComment => comment.check_name = FirstFailure.name

\* the first entry of the listing did not fail and the second did: the logs
\* of the second were fetched and analyzed
C21_Witness ==
    /\ Len(check_runs) = 2
    /\ check_runs[1].conclusion = "neutral"
    /\ check_runs[2].conclusion = "failure"
    /\ Diagnosed
    /\ LogFetches = << Call("get_check_logs", <<2>>, FALSE) >>

---------------------------------------------------------------------------
(* The claim about the server processes of a shared client, checked under  *)
(* SpecShared.                                                             *)

\* the processes close() would leave running, were it called now
LeftRunning == { pid \in 1..Len(processes) : close(processes)[pid].alive }

\* C22 as stated: for one MCPClient and any interleaving of call_tool
\* invocations, at most one process is ever spawned for the server github,
\* and close() terminates every process that was spawned: none is missing
\* from the servers map.
C22_AsStated ==
    /\ Len(processes) <= 1
    /\ LeftRunning = {}

\* both invocations found the server unknown and each spawned a process;
\* the servers map holds the second, both calls returned, and close() would
\* leave the first running
C22_UntrackedProcess ==
    /\ \A i \in Invocations : Left(i) /\ result[i].status = "returned"
    /\ Len(processes) = 2
    /\ process = [i \in Invocations |-> i]
    /\ servers = ("github" :> 2)
    /\ LeftRunning = {1}

---------------------------------------------------------------------------
(* The claim about the dependency fix in the pipeline, checked under Spec. *)

\* the fix generator returned the fix of a MissingDependency diagnosis
DependencyFixed ==
    /\ Diagnosed
    /\ diagnosis.failure_type = MISSING_DEPENDENCY
    /\ fix # NoFix

\* C23 as stated: whenever the pipeline gives a MissingDependency diagnosis
\* of analyze to the fix generator, the new content of the ChangeOp
\* generated is a package name that is not empty followed by a line break:
\* no empty line is appended to requirements.txt.
C23_AsStated ==
    DependencyFixed =>
        /\ Len(fix.changes) = 1
        /\ LET new_content == fix.changes[1].new_content IN
            /\ Len(new_content) >= 2
            /\ new_content[Len(new_content)] = NL
            /\ \A k \in 1..(Len(new_content) - 1) : new_content[k] # NL

\* the log held error: externally-managed-environment, whose pattern has no
\* group: the diagnosis has no package_name, the fix inserts a line break
\* alone into requirements.txt, and the comment proposing it was posted
C23_EmptyLineAppended ==
    /\ DependencyFixed
    /\ diagnosis.error_message = <<T_EME>>
    /\ diagnosis.details = EmptyDict
    /\ fix.changes = << [file |-> <<"requirements.txt">>, action |-> "insert",
                         line_number |-> -1, old_content |-> <<>>,
                         new_content |-> <<NL>>] >>
    /\ Posted
    /\ result.status = "success"

---------------------------------------------------------------------------
(* The claim about the gate and the category, checked under Spec.          *)

\* the run is past the gate: diagnosed, and not ended at LowConfidence
PastGate == Diagnosed /\ ~AtLowConfidence

\* the threshold lies in the interval (0.3, 0.9]
ThresholdInRange == 30 < threshold /\ threshold <= 90

\* C24: with the default threshold 0.7, and with any threshold above 0.3 and
\* up to 0.9, a diagnosed run is past the gate exactly if the category of
\* the diagnosis is not Unknown; so the fix generator is never invoked with
\* the category Unknown, and every success outcome carries a diagnosis of a
\* category other than Unknown and of confidence 0.9.
C24_GateByCategory ==
    ThresholdInRange =>
        /\ Diagnosed => (PastGate <=> diagnosis.failure_type # UNKNOWN)
        /\ \A i \in 1..Len(calls) :
            calls[i].op = "generate_fix" => calls[i].arg # <<UNKNOWN>>
        /\ result.status = "success" =>
            /\ result.diagnosis = diagnosis
            /\ result.diagnosis.failure_type # UNKNOWN
            /\ result.diagnosis.confidence = 90

\* the threshold is 0.9, the upper end of the interval: a matched diagnosis
\* of confidence 0.9 went through the gate to success
C24_Witness ==
    /\ threshold = 90
    /\ result.status = "success"
    /\ result.diagnosis.failure_type = SYNTAX_ERROR
    /\ result.diagnosis.confidence = 90
    /\ Called("generate_fix")

=============================================================================
